---- MODULE Spec2Model ----
(***************************************************************************)
(* EOS-06 histogram generator (src/eos06_histogram.py).                    *)
(*                                                                         *)
(* Array elements are records: a finite element carries its value, NaN and *)
(* +/-infinity carry none.  Every real number the program computes (bin    *)
(* edges, mean, median) is kept exactly, as a rational <<numerator,        *)
(* denominator>> with a positive denominator.                              *)
(***************************************************************************)
EXTENDS Integers, Sequences, FiniteSets, TLC

VARIABLES
    pc,          \* position of the program
    bins,        \* the bins argument
    variables,   \* the variables argument: None, or the names listed
    shape,       \* dataset: name -> number of dimensions of that variable
    idx,         \* position of the for loop in dataset.variables
    data_flat,   \* the array handed to compute_histogram
    hist,        \* what compute_histogram returned or raised
    var_info,    \* what get_variable_info returned
    exc,         \* the exception being handled by the except clause
    files,       \* file system: output path -> whether it exists, its lines
    processed_vars,
    outcome,     \* name -> what the loop did with that variable
    attempts,    \* the names that entered the try block, in order
    closed,      \* dataset.close() was called
    summary      \* the counts printed by "Processing complete."

vars == <<pc, bins, variables, shape, idx, data_flat, hist, var_info, exc,
          files, processed_vars, outcome, attempts, closed, summary>>

-----------------------------------------------------------------------------
(* Bounds of the model.                                                    *)

MaxBins == 3        \* bins ranges over -1 .. MaxBins
MaxVal == 4         \* finite array elements range over 1 .. MaxVal
MaxLen == 4         \* arrays handed to compute_histogram directly
MaxRunLen == 2      \* arrays read from the dataset during a run

BinChoices == {-1, 0} \cup (1 .. MaxBins)

NaN == [cls |-> "nan", val |-> 0]
PosInf == [cls |-> "inf", val |-> 1]
NegInf == [cls |-> "inf", val |-> -1]
Finite(v) == [cls |-> "finite", val |-> v]

Elements == {NaN, PosInf, NegInf} \cup {Finite(v) : v \in 1 .. MaxVal}

\* the elements of the arrays read during a run: every kind of non-finite
\* element, and the two extreme finite values
RunElements == {NaN, PosInf, NegInf, Finite(1), Finite(MaxVal)}

ArraysUpTo(n, elements) == UNION {[1 .. k -> elements] : k \in 0 .. n}

-----------------------------------------------------------------------------
(* Exact rationals.                                                        *)

Rat(n, d) == <<n, d>>
RLt(x, y) == x[1] * y[2] < y[1] * x[2]
RLe(x, y) == x[1] * y[2] <= y[1] * x[2]
REq(x, y) == x[1] * y[2] = y[1] * x[2]
RSub(x, y) == <<x[1] * y[2] - y[1] * x[2], x[2] * y[2]>>
RAdd(x, y) == <<x[1] * y[2] + y[1] * x[2], x[2] * y[2]>>
\* floor of x * n, for x >= 0
RFloorTimes(x, n) == (x[1] * n) \div x[2]

\* F applied to the value of v: v is evaluated once, however often F uses it
WithValue(v, F(_)) == CHOOSE r \in {F(x) : x \in {v}} : TRUE

RECURSIVE SumSeq(_)
SumSeq(s) == IF s = <<>> THEN 0 ELSE Head(s) + SumSeq(Tail(s))

SeqRange(s) == {s[k] : k \in DOMAIN s}
SeqMin(s) == CHOOSE m \in SeqRange(s) : \A x \in SeqRange(s) : m <= x
SeqMax(s) == CHOOSE m \in SeqRange(s) : \A x \in SeqRange(s) : x <= m

\* the k-th smallest element of s (1-based), i.e. np.sort(s)[k-1]
KthSmallest(s, k) ==
    CHOOSE x \in SeqRange(s) :
        /\ Cardinality({j \in DOMAIN s : s[j] < x}) < k
        /\ Cardinality({j \in DOMAIN s : s[j] <= x}) >= k

-----------------------------------------------------------------------------
(* compute_histogram                                                       *)

\* np.isfinite, mutated: only NaN is rejected
isfinite_nan_only(e) == e.cls # "nan"

\* np.isfinite
isfinite(e) == e.cls = "finite"

\* data[np.isfinite(data)]: the finite elements, in order, as numbers
clean(data) ==
    LET kept == SelectSeq(data, isfinite)
    IN  [k \in 1 .. Len(kept) |-> kept[k].val]

\* np.histogram's outer edges, mutated: a zero-width range is widened by 1
get_outer_edges_wide(a) ==
    LET first_edge == SeqMin(a)
        last_edge == SeqMax(a)
    IN  IF first_edge = last_edge
        THEN <<Rat(first_edge - 1, 1), Rat(last_edge + 1, 1)>>
        ELSE <<Rat(first_edge, 1), Rat(last_edge, 1)>>

\* np.histogram's range: (min, max), widened by 0.5 on both sides when equal
get_outer_edges(a) ==
    LET first_edge == SeqMin(a)
        last_edge == SeqMax(a)
    IN  IF first_edge = last_edge
        THEN <<Rat(2 * first_edge - 1, 2), Rat(2 * last_edge + 1, 2)>>
        ELSE <<Rat(first_edge, 1), Rat(last_edge, 1)>>

\* np.linspace, mutated: the points run from stop down to start
linspace_reversed(start, stop, num) ==
    LET delta == RSub(start, stop)
    IN  [k \in 1 .. num |->
            IF k = num THEN start
            ELSE RAdd(stop, Rat(delta[1] * (k - 1), delta[2] * (num - 1)))]

\* np.linspace(start, stop, num): num equally spaced points, both ends included
linspace(start, stop, num) ==
    LET delta == RSub(stop, start)
    IN  [k \in 1 .. num |->
            IF k = num THEN stop
            ELSE RAdd(start, Rat(delta[1] * (k - 1), delta[2] * (num - 1)))]

\* (v - first_edge) / (last_edge - first_edge) * n, truncated to an integer
f_index(v, first_edge, last_edge, n) ==
    LET num == RSub(Rat(v, 1), first_edge)
        den == RSub(last_edge, first_edge)
    IN  RFloorTimes(Rat(num[1] * den[2], num[2] * den[1]), n)

\* the bin of one value, mutated: index n is not folded into the last bin
bin_index_no_fold(v, first_edge, last_edge, n, bin_edges) ==
    f_index(v, first_edge, last_edge, n)

\* the bin of one value, mutated: every interior edge belongs to the bin below
bin_index_right_closed(v, first_edge, last_edge, n, bin_edges) ==
    CHOOSE i \in 0 .. n - 1 :
        /\ i = 0 \/ RLt(bin_edges[i + 1], Rat(v, 1))
        /\ RLe(Rat(v, 1), bin_edges[i + 2])

\* the 0-based bin of one value in np.histogram's equal-width path: index n
\* is folded into n - 1, then the index is corrected against the edges
bin_index(v, first_edge, last_edge, n, bin_edges) ==
    WithValue(f_index(v, first_edge, last_edge, n), LAMBDA f :
    WithValue(IF f = n THEN f - 1 ELSE f, LAMBDA folded :
    WithValue(IF RLt(Rat(v, 1), bin_edges[folded + 1])
              THEN folded - 1 ELSE folded, LAMBDA decremented :
        IF /\ RLe(bin_edges[decremented + 2], Rat(v, 1))
           /\ decremented # n - 1
        THEN decremented + 1 ELSE decremented)))

\* np.bincount(indices, minlength=n) over the n bins
bincount(indices, n) ==
    [b \in 1 .. n |-> Cardinality({j \in DOMAIN indices : indices[j] = b - 1})]

\* np.histogram(a, bins=n) on a non-empty array of finite values
np_histogram(a, n) ==
    IF n < 1 THEN [kind |-> "ValueError"]
    ELSE WithValue(get_outer_edges(a), LAMBDA outer :
         WithValue(linspace(outer[1], outer[2], n + 1), LAMBDA bin_edges :
         WithValue([j \in DOMAIN a |->
                       bin_index(a[j], outer[1], outer[2], n, bin_edges)],
                   LAMBDA indices :
             [kind |-> "ok",
              hist_counts |-> bincount(indices, n),
              bin_edges |-> bin_edges])))

\* the stats dictionary; std holds the variance, whose square root np.std returns
statistics(clean_data) ==
    LET n == Len(clean_data)
        total == SumSeq(clean_data)
        squares == SumSeq([k \in 1 .. n |-> clean_data[k] * clean_data[k]])
    IN  [count |-> n,
         mean |-> Rat(total, n),
         std |-> Rat(n * squares - total * total, n * n),
         min |-> SeqMin(clean_data),
         max |-> SeqMax(clean_data),
         median |-> Rat(KthSmallest(clean_data, (n + 1) \div 2)
                        + KthSmallest(clean_data, (n + 2) \div 2), 2)]

EMPTY == [kind |-> "EMPTY"]

compute_histogram(data, n) ==
    WithValue(clean(data), LAMBDA clean_data :
        IF Len(clean_data) = 0 THEN EMPTY
        ELSE WithValue(np_histogram(clean_data, n), LAMBDA h :
                 IF h.kind = "ValueError" THEN h
                 ELSE [kind |-> "ok",
                       bin_edges |-> h.bin_edges,
                       hist_counts |-> h.hist_counts,
                       stats |-> statistics(clean_data)]))

-----------------------------------------------------------------------------
(* write_histogram_to_text                                                 *)

\* the lines of the document, one per f.write call, in order
document(hist_counts, info) ==
    <<"# Histogram for variable", "# Generated on">>
    \o (IF info.truthy
        THEN <<"# Variable info:">> \o [k \in 1 .. Len(info.keys) |-> "#   key: value"]
        ELSE <<>>)
    \o <<"#", "# Statistics:", "#   Count", "#   Mean", "#   Std Dev", "#   Min",
         "#   Max", "#   Median", "#", "# Format", "#">>
    \o [k \in 1 .. Len(hist_counts) |-> "bin_center, count, left, right"]

NoFile == [exists |-> FALSE, lines |-> <<>>]

\* the destination after write_histogram_to_text on a file that was `old`:
\* written = -1 when open() fails, else the number of f.write calls that
\* succeed before one raises (all of them when none does); open(.., 'w')
\* truncates, and leaving the with block flushes what was written
write_result(old, doc, written) ==
    IF written = -1 THEN old
    ELSE [exists |-> TRUE, lines |-> SubSeq(doc, 1, written)]

-----------------------------------------------------------------------------
(* process_eos06_nc_file                                                   *)

\* dataset.variables, in the order of the dataset
VarNames == <<"sst", "chl">>
Names == SeqRange(VarNames)

\* len(var.shape): scalars, coordinate variables and 2-D variables
Ndims == {0, 1, 2}

\* var.ncattrs() of every variable of the dataset
ncattrs == <<"units">>
base_filename == "eos06"

\* os.path.join(output_dir, f"{base_filename}_{var_name}_histogram.txt")
output_file(var_name) == base_filename \o "_" \o var_name \o "_histogram.txt"

Paths == {output_file(n) : n \in Names}

\* the variables argument: None, or a list of names
Filters == {[is_none |-> TRUE, names |-> {}]}
           \cup {[is_none |-> FALSE, names |-> s] : s \in SUBSET Names}

\* truth value of the variables argument in "if variables and ..."
truthy(v) == ~v.is_none /\ v.names # {}

\* the two skips at the head of the loop body, mutated: an explicitly
\* requested variable is processed whatever its shape
select_requested_any_shape(v, var_name, ndim) ==
    IF truthy(v) /\ var_name \notin v.names THEN "filtered"
    ELSE IF ndim <= 1 /\ ~truthy(v) THEN "coordinate"
    ELSE "attempt"

\* the two skips at the head of the loop body
select(v, var_name, ndim) ==
    IF truthy(v) /\ var_name \notin v.names THEN "filtered"
    ELSE IF ndim <= 1 THEN "coordinate"
    ELSE "attempt"

NoHist == [kind |-> "none"]
NoInfo == [truthy |-> FALSE, keys |-> <<>>]

var_name == VarNames[idx]

Init ==
    /\ pc = "start"
    /\ bins \in BinChoices
    /\ variables \in Filters
    /\ shape \in [Names -> Ndims]
    /\ idx = 1
    /\ data_flat = <<>>
    /\ hist = NoHist
    /\ var_info = NoInfo
    /\ exc = "none"
    /\ files = [p \in Paths |-> NoFile]
    /\ processed_vars = 0
    /\ outcome = [n \in Names |-> "pending"]
    /\ attempts = <<>>
    /\ closed = FALSE
    /\ summary = <<>>

Locals == <<data_flat, hist, var_info, exc>>
Inputs == <<bins, variables, shape>>
Outputs == <<files, processed_vars, closed, summary>>

\* read_nc_file returns the dataset
OpenDataset ==
    /\ pc = "start"
    /\ pc' = "loop"
    /\ UNCHANGED <<Inputs, idx, Locals, Outputs, outcome, attempts>>

\* read_nc_file returns None: the function returns before the loop
OpenFails ==
    /\ pc = "start"
    /\ pc' = "returned"
    /\ UNCHANGED <<Inputs, idx, Locals, Outputs, outcome, attempts>>

\* one of the two continue statements
SkipVariable ==
    /\ pc = "loop"
    /\ idx <= Len(VarNames)
    /\ select(variables, var_name, shape[var_name]) # "attempt"
    /\ outcome' = [outcome EXCEPT
                       ![var_name] = select(variables, var_name, shape[var_name])]
    /\ idx' = idx + 1
    /\ UNCHANGED <<pc, Inputs, Locals, Outputs, attempts>>

\* the variable passes both tests and the try block is entered
BeginVariable ==
    /\ pc = "loop"
    /\ idx <= Len(VarNames)
    /\ select(variables, var_name, shape[var_name]) = "attempt"
    /\ attempts' = Append(attempts, var_name)
    /\ pc' = "read"
    /\ UNCHANGED <<Inputs, idx, Locals, Outputs, outcome>>

\* data = var[:]; data_flat = data.flatten()
ReadData ==
    /\ pc = "read"
    /\ \E d \in ArraysUpTo(MaxRunLen, RunElements) : data_flat' = d
    /\ pc' = "compute"
    /\ UNCHANGED <<Inputs, idx, hist, var_info, exc, Outputs, outcome, attempts>>

\* var[:] raises
ReadFails ==
    /\ pc = "read"
    /\ exc' = "ReadError"
    /\ pc' = "except"
    /\ UNCHANGED <<Inputs, idx, data_flat, hist, var_info, Outputs, outcome,
                   attempts>>

\* the call of compute_histogram and the test of bin_edges that follows it.
\* This is the last use of data_flat in the iteration: the model keeps a
\* local only as long as the code still reads it.
ComputeHistogram ==
    /\ pc = "compute"
    /\ hist' = compute_histogram(data_flat, bins)
    /\ data_flat' = <<>>
    /\ \/ /\ hist'.kind = "ok"
          /\ pc' = "info"
          /\ UNCHANGED <<exc, outcome>>
       \/ /\ hist'.kind = "EMPTY"
          /\ outcome' = [outcome EXCEPT ![var_name] = "empty"]
          /\ pc' = "end"
          /\ UNCHANGED exc
       \/ /\ hist'.kind = "ValueError"
          /\ exc' = "ValueError"
          /\ pc' = "except"
          /\ UNCHANGED outcome
    /\ UNCHANGED <<Inputs, idx, var_info, Outputs, attempts>>

\* get_variable_info: the attributes, then shape, dtype and dimensions
GetVariableInfo ==
    /\ pc = "info"
    /\ var_info' = [truthy |-> TRUE,
                    keys |-> ncattrs \o <<"shape", "dtype", "dimensions">>]
    /\ pc' = "write"
    /\ UNCHANGED <<Inputs, idx, data_flat, hist, exc, Outputs, outcome, attempts>>

\* get_variable_info raises
InfoFails ==
    /\ pc = "info"
    /\ exc' = "InfoError"
    /\ pc' = "except"
    /\ UNCHANGED <<Inputs, idx, data_flat, hist, var_info, Outputs, outcome,
                   attempts>>

\* write_histogram_to_text returns; the three prints and processed_vars += 1.
\* This is the last use of hist and var_info in the iteration.
WriteHistogram ==
    /\ pc = "write"
    /\ LET doc == document(hist.hist_counts, var_info)
       IN  files' = [files EXCEPT ![output_file(var_name)] =
                         write_result(@, doc, Len(doc))]
    /\ processed_vars' = processed_vars + 1
    /\ outcome' = [outcome EXCEPT ![var_name] = "written"]
    /\ hist' = NoHist
    /\ var_info' = NoInfo
    /\ pc' = "end"
    /\ UNCHANGED <<Inputs, idx, data_flat, exc, closed, summary, attempts>>

\* write_histogram_to_text raises: open() fails, or one of the f.write calls.
\* hist and var_info are not read again, as in WriteHistogram.
WriteFails ==
    /\ pc = "write"
    /\ LET doc == document(hist.hist_counts, var_info)
       IN  \E written \in -1 .. Len(doc) - 1 :
               files' = [files EXCEPT ![output_file(var_name)] =
                             write_result(@, doc, written)]
    /\ exc' = "IOFailure"
    /\ hist' = NoHist
    /\ var_info' = NoInfo
    /\ pc' = "except"
    /\ UNCHANGED <<Inputs, idx, data_flat, processed_vars, closed, summary,
                   outcome, attempts>>

\* the except clause, mutated: the exception is raised again and ends the run
HandleException_reraise ==
    /\ pc = "except"
    /\ pc' = "aborted"
    /\ UNCHANGED <<Inputs, idx, Locals, Outputs, outcome, attempts>>

\* except Exception as e: print the error
HandleException ==
    /\ pc = "except"
    /\ outcome' = [outcome EXCEPT ![var_name] = exc]
    /\ pc' = "end"
    /\ UNCHANGED <<Inputs, idx, Locals, Outputs, attempts>>

\* print("-" * 30) and the step to the next variable
EndIteration ==
    /\ pc = "end"
    /\ idx' = idx + 1
    /\ data_flat' = <<>>
    /\ hist' = NoHist
    /\ var_info' = NoInfo
    /\ exc' = "none"
    /\ pc' = "loop"
    /\ UNCHANGED <<Inputs, Outputs, outcome, attempts>>

\* the loop is over: dataset.close() and the summary line
CloseDataset ==
    /\ pc = "loop"
    /\ idx > Len(VarNames)
    /\ closed' = TRUE
    /\ summary' = Append(summary, processed_vars)
    /\ pc' = "done"
    /\ UNCHANGED <<Inputs, idx, Locals, files, processed_vars, outcome, attempts>>

Next ==
    \/ OpenDataset
    \/ OpenFails
    \/ SkipVariable
    \/ BeginVariable
    \/ ReadData
    \/ ReadFails
    \/ ComputeHistogram
    \/ GetVariableInfo
    \/ InfoFails
    \/ WriteHistogram
    \/ WriteFails
    \/ HandleException
    \/ EndIteration
    \/ CloseDataset

Spec == Init /\ [][Next]_vars

\* the interpreter runs the function to its end: every step that can be
\* taken is taken
FairSpec == Spec /\ WF_vars(Next)

-----------------------------------------------------------------------------
(* compute_histogram called on its own                                     *)

HistInit ==
    /\ pc = "call"
    /\ bins \in BinChoices
    /\ data_flat \in ArraysUpTo(MaxLen, Elements)
    /\ hist = NoHist
    /\ variables = [is_none |-> TRUE, names |-> {}]
    /\ shape = [n \in Names |-> 0]
    /\ idx = 1
    /\ var_info = NoInfo
    /\ exc = "none"
    /\ files = [p \in Paths |-> NoFile]
    /\ processed_vars = 0
    /\ outcome = [n \in Names |-> "pending"]
    /\ attempts = <<>>
    /\ closed = FALSE
    /\ summary = <<>>

CallComputeHistogram ==
    /\ pc = "call"
    /\ hist' = compute_histogram(data_flat, bins)
    /\ pc' = "return"
    /\ UNCHANGED <<Inputs, idx, data_flat, var_info, exc, Outputs, outcome,
                   attempts>>

HistNext == CallComputeHistogram

HistSpec == HistInit /\ [][HistNext]_vars

-----------------------------------------------------------------------------
(* Properties.  The finite elements of an array are counted here from the  *)
(* elements themselves, not through clean().                               *)

FiniteIdx(data) == {k \in DOMAIN data : data[k].cls = "finite"}
FiniteVals(data) == {data[k].val : k \in FiniteIdx(data)}
HasFinite(data) == FiniteIdx(data) # {}
MinFinite(data) == CHOOSE m \in FiniteVals(data) : \A x \in FiniteVals(data) : m <= x
MaxFinite(data) == CHOOSE m \in FiniteVals(data) : \A x \in FiniteVals(data) : x <= m

\* compute_histogram has returned a histogram for an array with a finite
\* value and bins >= 1
Returned == pc = "return" /\ HasFinite(data_flat) /\ bins >= 1

\* C1: for an array with at least one finite value and bins >= 1, the
\* counts sum to stats['count'], and both are the number of finite elements.
C1_CountsSumToFiniteCount ==
    Returned =>
        /\ hist.kind = "ok"
        /\ SumSeq(hist.hist_counts) = hist.stats.count
        /\ hist.stats.count = Cardinality(FiniteIdx(data_flat))

C1_Witness ==
    /\ Returned
    /\ hist.kind = "ok"
    /\ bins >= 2
    /\ \E k \in DOMAIN data_flat : data_flat[k] = NaN
    /\ \E k \in DOMAIN data_flat : data_flat[k].cls = "inf"
    /\ Cardinality(FiniteVals(data_flat)) >= 2

\* C2: bins + 1 edges, bins counts, every count a non-negative integer, and
\* the edges never decrease.
C2_ShapeOfResult ==
    Returned =>
        /\ hist.kind = "ok"
        /\ Len(hist.bin_edges) = bins + 1
        /\ Len(hist.hist_counts) = bins
        /\ \A i \in 1 .. bins : hist.hist_counts[i] \in Nat
        /\ \A i \in 1 .. bins : RLe(hist.bin_edges[i], hist.bin_edges[i + 1])

C2_Witness ==
    /\ Returned
    /\ hist.kind = "ok"
    /\ bins = MaxBins
    /\ Len(hist.bin_edges) = MaxBins + 1
    /\ \E i \in 1 .. bins : hist.hist_counts[i] = 0
    /\ \E i \in 1 .. bins : hist.hist_counts[i] >= 2

\* the finite elements of data_flat that lie in bin i of hist: half-open
\* bins, the last one closed
InBin(i) ==
    {k \in FiniteIdx(data_flat) :
        /\ RLe(hist.bin_edges[i], Rat(data_flat[k].val, 1))
        /\ IF i < bins
           THEN RLt(Rat(data_flat[k].val, 1), hist.bin_edges[i + 1])
           ELSE RLe(Rat(data_flat[k].val, 1), hist.bin_edges[i + 1])}

\* C4: counts[i] is the number of finite values in [edges[i], edges[i+1]),
\* the last bin being closed on both ends, and every finite value lies in
\* exactly one bin.
C4_CountsMatchIntervals ==
    Returned =>
        /\ hist.kind = "ok"
        /\ \A i \in 1 .. bins : hist.hist_counts[i] = Cardinality(InBin(i))
        /\ \A k \in FiniteIdx(data_flat) :
               Cardinality({i \in 1 .. bins : k \in InBin(i)}) = 1

\* a value on an interior edge and a value on the top edge
C4_Witness ==
    /\ Returned
    /\ hist.kind = "ok"
    /\ bins >= 2
    /\ \E k \in FiniteIdx(data_flat) : \E i \in 2 .. bins :
           REq(hist.bin_edges[i], Rat(data_flat[k].val, 1))
    /\ \E k \in FiniteIdx(data_flat) :
           REq(hist.bin_edges[bins + 1], Rat(data_flat[k].val, 1))

EquallySpaced(edges) ==
    \A i \in 1 .. Len(edges) - 2 :
        REq(RSub(edges[i + 1], edges[i]), RSub(edges[i + 2], edges[i + 1]))

\* C5 as stated: the edges are equally spaced from the minimum to the maximum
\* of the finite values, also when all finite values are equal.
C5_EdgesSpanMinMax ==
    Returned =>
        /\ hist.kind = "ok"
        /\ EquallySpaced(hist.bin_edges)
        /\ REq(hist.bin_edges[1], Rat(MinFinite(data_flat), 1))
        /\ REq(hist.bin_edges[bins + 1], Rat(MaxFinite(data_flat), 1))
        /\ SumSeq(hist.hist_counts) = Cardinality(FiniteIdx(data_flat))

\* C5, amended: the edges are equally spaced and the counts sum to the
\* number of finite values; they run from the minimum to the maximum when
\* these differ, and from value - 1/2 to value + 1/2 when all finite values
\* are equal.
C5_EdgesSpanRange ==
    Returned =>
        /\ hist.kind = "ok"
        /\ EquallySpaced(hist.bin_edges)
        /\ SumSeq(hist.hist_counts) = Cardinality(FiniteIdx(data_flat))
        /\ IF MinFinite(data_flat) < MaxFinite(data_flat)
           THEN /\ REq(hist.bin_edges[1], Rat(MinFinite(data_flat), 1))
                /\ REq(hist.bin_edges[bins + 1], Rat(MaxFinite(data_flat), 1))
           ELSE /\ REq(hist.bin_edges[1], Rat(2 * MinFinite(data_flat) - 1, 2))
                /\ REq(hist.bin_edges[bins + 1],
                       Rat(2 * MaxFinite(data_flat) + 1, 2))

\* three equal values and three bins
C5_Witness ==
    /\ Returned
    /\ hist.kind = "ok"
    /\ bins = 3
    /\ Cardinality(FiniteIdx(data_flat)) = 3
    /\ Cardinality(FiniteVals(data_flat)) = 1
    /\ SumSeq(hist.hist_counts) = 3

\* C6 as stated: with bins <= 0 compute_histogram signals InvalidBinCount,
\* whatever the array.
C6_NonPositiveBinsRaise ==
    (pc = "return" /\ bins <= 0) => hist.kind = "ValueError"

-----------------------------------------------------------------------------
(* Properties of a run of process_eos06_nc_file.                           *)

Attempted(n) == \E k \in DOMAIN attempts : attempts[k] = n
Visited(n) == outcome[n] # "pending"
Written == {n \in Names : outcome[n] = "written"}

\* the document write_histogram_to_text writes for a variable in this run
full_document == document([k \in 1 .. bins |-> 0],
                          [truthy |-> TRUE,
                           keys |-> ncattrs \o <<"shape", "dtype", "dimensions">>])

\* C3: an array without a finite value makes compute_histogram return EMPTY,
\* with no edges, counts or statistics; the caller then writes no file for
\* the variable, leaves the counter alone and goes on to the next variable.
C3_EmptyIsSkipped ==
    /\ [][(pc = "compute" /\ ~HasFinite(data_flat)) =>
              (/\ hist' = EMPTY
               /\ outcome' = [outcome EXCEPT ![var_name] = "empty"]
               /\ pc' = "end"
               /\ files' = files
               /\ processed_vars' = processed_vars)]_vars
    /\ [][(pc = "compute" /\ HasFinite(data_flat)) => hist' # EMPTY]_vars
    /\ [](/\ \A n \in Names :
                 outcome[n] = "empty" => ~files[output_file(n)].exists
          /\ processed_vars = Cardinality(Written))
    /\ [][(pc = "end" /\ outcome[var_name] = "empty") =>
              (pc' = "loop" /\ idx' = idx + 1)]_vars

\* the first variable was skipped as empty and the second one was written
C3_Witness ==
    /\ pc = "done"
    /\ outcome[VarNames[1]] = "empty"
    /\ outcome[VarNames[2]] = "written"
    /\ ~files[output_file(VarNames[1])].exists
    /\ processed_vars = 1

Failures == {"ReadError", "ValueError", "InfoError", "IOFailure"}

Selected(n) == select(variables, n, shape[n]) = "attempt"

\* C7: once the dataset is open, whatever fails for one variable, the run
\* reaches the end, where every selected variable has been attempted, in
\* dataset order, the dataset is closed and the count of the variables
\* written is reported.
C7_FailuresAreIsolated ==
    (pc = "loop") ~>
        (/\ pc = "done"
         /\ attempts = SelectSeq(VarNames, Selected)
         /\ closed
         /\ summary = <<Cardinality(Written)>>)

\* the first variable failed and the second one was written all the same
C7_Witness ==
    /\ pc = "done"
    /\ closed
    /\ outcome[VarNames[1]] \in Failures
    /\ outcome[VarNames[2]] = "written"
    /\ attempts = VarNames
    /\ summary = <<1>>

\* C8 as stated: a destination file is empty or holds the complete document;
\* no failure leaves a truncated document.
C8_AllOrNothing ==
    \A n \in Names :
        files[output_file(n)].exists =>
            \/ files[output_file(n)].lines = <<>>
            \/ files[output_file(n)].lines = full_document

\* C9 as stated: once the bin count <= 0 has been signalled, the run does not
\* end normally with its summary.
C9_InvalidBinCountIsFatal ==
    (bins <= 0 /\ \E n \in Names : outcome[n] = "ValueError") =>
        (pc # "done" /\ summary = <<>>)

\* C10 as stated: a variable is attempted iff it has more than one dimension
\* and no filter was given or its name is in the filter; files are written
\* only for attempted variables, one each, at distinct paths.
C10_Selection ==
    /\ \A n \in Names :
           Visited(n) =>
               (Attempted(n) <=>
                    (shape[n] > 1 /\ (variables.is_none \/ n \in variables.names)))
    /\ \A n \in Names : files[output_file(n)].exists => Attempted(n)
    /\ \A n, m \in Names : n # m => output_file(n) # output_file(m)
    /\ \A j, k \in DOMAIN attempts : attempts[j] = attempts[k] => j = k

\* C10, amended: a filter that is an empty list selects like no filter.
C10_SelectionEmptyFilter ==
    /\ \A n \in Names :
           Visited(n) =>
               (Attempted(n) <=>
                    (/\ shape[n] > 1
                     /\ \/ variables.is_none
                        \/ variables.names = {}
                        \/ n \in variables.names))
    /\ \A n \in Names : files[output_file(n)].exists => Attempted(n)
    /\ \A n, m \in Names : n # m => output_file(n) # output_file(m)
    /\ \A j, k \in DOMAIN attempts : attempts[j] = attempts[k] => j = k

\* a coordinate variable named in the filter was skipped, the other written
C10_Witness ==
    /\ pc = "done"
    /\ ~variables.is_none
    /\ variables.names = Names
    /\ shape[VarNames[1]] <= 1
    /\ outcome[VarNames[1]] = "coordinate"
    /\ ~files[output_file(VarNames[1])].exists
    /\ outcome[VarNames[2]] = "written"
    /\ files[output_file(VarNames[2])].exists

====
